---- MODULE Spec2Model ----
(***************************************************************************)
(* Portfolio allocation calculator (src/scripts/portfolio.js).             *)
(*                                                                         *)
(* JavaScript numbers are modelled as exact values: a finite number is a   *)
(* rational sign * n / d whose numerator and denominator are naturals of   *)
(* arbitrary size (little-endian sequences of base-10000 limbs), next to   *)
(* the three non-finite values NaN, +Infinity and -Infinity.  Results of   *)
(* Math.sqrt and Math.pow that are not rational are kept symbolic.  The    *)
(* rounding error of IEEE doubles and the sign of zero are not modelled.   *)
(***************************************************************************)
EXTENDS Integers, Sequences, FiniteSets, TLC

\* ------------------------------------------------------------------------
\* Naturals of arbitrary size: little-endian limbs, no leading zero limb,
\* zero is the empty sequence.
\* ------------------------------------------------------------------------
Base == 10000

RECURSIVE BNorm(_)
BNorm(a) ==
  IF a = <<>> THEN <<>>
  ELSE IF a[Len(a)] = 0 THEN BNorm(SubSeq(a, 1, Len(a) - 1))
  ELSE a

RECURSIVE BFromNat(_)
BFromNat(x) ==
  IF x = 0 THEN <<>> ELSE <<x % Base>> \o BFromNat(x \div Base)

RECURSIVE BCmpAt(_, _, _)
BCmpAt(a, b, i) ==
  IF i = 0 THEN 0
  ELSE IF a[i] < b[i] THEN -1
  ELSE IF a[i] > b[i] THEN 1
  ELSE BCmpAt(a, b, i - 1)

BCmp(a, b) ==
  IF Len(a) < Len(b) THEN -1
  ELSE IF Len(a) > Len(b) THEN 1
  ELSE BCmpAt(a, b, Len(a))

RECURSIVE BAddC(_, _, _)
BAddC(a, b, c) ==
  IF a = <<>> /\ b = <<>> THEN (IF c = 0 THEN <<>> ELSE <<c>>)
  ELSE LET x == (IF a = <<>> THEN 0 ELSE Head(a))
                + (IF b = <<>> THEN 0 ELSE Head(b)) + c
       IN  <<x % Base>> \o BAddC(IF a = <<>> THEN <<>> ELSE Tail(a),
                                 IF b = <<>> THEN <<>> ELSE Tail(b),
                                 x \div Base)

BAdd(a, b) == BAddC(a, b, 0)

\* a - b for a >= b
RECURSIVE BSubC(_, _, _)
BSubC(a, b, c) ==
  IF a = <<>> THEN <<>>
  ELSE LET x == Head(a) - (IF b = <<>> THEN 0 ELSE Head(b)) - c
       IN  <<x % Base>> \o BSubC(Tail(a),
                                 IF b = <<>> THEN <<>> ELSE Tail(b),
                                 IF x < 0 THEN 1 ELSE 0)

BSub(a, b) == BNorm(BSubC(a, b, 0))

\* a * k for one limb k
RECURSIVE BMulLimbC(_, _, _)
BMulLimbC(a, k, c) ==
  IF a = <<>> THEN (IF c = 0 THEN <<>> ELSE <<c>>)
  ELSE LET x == Head(a) * k + c
       IN  <<x % Base>> \o BMulLimbC(Tail(a), k, x \div Base)

BMulLimb(a, k) == IF k = 0 THEN <<>> ELSE BMulLimbC(a, k, 0)

RECURSIVE BMul(_, _)
BMul(a, b) ==
  IF a = <<>> \/ b = <<>> THEN <<>>
  ELSE LET rest == BMul(a, Tail(b))
       IN  BAdd(BMulLimb(a, Head(b)),
                IF rest = <<>> THEN <<>> ELSE <<0>> \o rest)

\* exact quotient a / k for a small k that divides a
RECURSIVE BDivSmallAt(_, _, _, _)
BDivSmallAt(a, k, i, r) ==
  IF i = 0 THEN <<>>
  ELSE LET x == r * Base + a[i]
       IN  Append(BDivSmallAt(a, k, i - 1, x % k), x \div k)

BDivSmall(a, k) == BNorm(BDivSmallAt(a, k, Len(a), 0))

\* floor(a / b) for b > 0
RECURSIVE BDiv(_, _)
BDiv(a, b) ==
  IF BCmp(a, b) < 0 THEN <<>>
  ELSE LET q2 == BMulLimb(BDiv(a, BMulLimb(b, 2)), 2)
           r  == BSub(a, BMul(q2, b))
       IN  IF BCmp(r, b) < 0 THEN q2 ELSE BAdd(q2, <<1>>)

\* common factors 2 and 5 removed from numerator and denominator
RECURSIVE BReduce(_, _)
BReduce(n, d) ==
  IF n = <<>> THEN <<n, <<1>>>>
  ELSE IF n[1] % 10 = 0 /\ d[1] % 10 = 0
       THEN BReduce(BDivSmall(n, 10), BDivSmall(d, 10))
  ELSE IF n[1] % 2 = 0 /\ d[1] % 2 = 0
       THEN BReduce(BDivSmall(n, 2), BDivSmall(d, 2))
  ELSE IF n[1] % 5 = 0 /\ d[1] % 5 = 0
       THEN BReduce(BDivSmall(n, 5), BDivSmall(d, 5))
  ELSE <<n, d>>

\* ------------------------------------------------------------------------
\* JavaScript numbers.  k is the kind: "fin" a finite rational s * n / d,
\* "nan", "inf", "ninf", "sqrt" the positive irrational square root of
\* n / d, "sym" a real number the model does not compute, "undef" the value
\* undefined (a missing property).
\* ------------------------------------------------------------------------
FinReduced(s, nd) == [k |-> "fin", s |-> s, n |-> nd[1], d |-> nd[2]]

Fin(s, n, d) == FinReduced(IF n = <<>> THEN 0 ELSE s, BReduce(n, d))

NaN       == [k |-> "nan",   s |-> 0,  n |-> <<>>, d |-> <<1>>]
Infinity  == [k |-> "inf",   s |-> 1,  n |-> <<>>, d |-> <<1>>]
NegInf    == [k |-> "ninf",  s |-> -1, n |-> <<>>, d |-> <<1>>]
Undefined == [k |-> "undef", s |-> 0,  n |-> <<>>, d |-> <<1>>]
Sym       == [k |-> "sym",   s |-> 0,  n |-> <<>>, d |-> <<1>>]

\* the number x / 10^e for integers x and e >= 0
RECURSIVE Pow10(_)
Pow10(e) == IF e = 0 THEN <<1>> ELSE BMulLimb(Pow10(e - 1), 10)

Dec(x, e) ==
  Fin(IF x < 0 THEN -1 ELSE 1, BFromNat(IF x < 0 THEN -x ELSE x), Pow10(e))

Num(x) == Dec(x, 0)

Zero == Num(0)

IsFin(a) == a.k = "fin"
IsNaN(a) == a.k = "nan"
IsInf(a) == a.k \in {"inf", "ninf"}
InfOf(s) == IF s < 0 THEN NegInf ELSE Infinity

Neg(a) ==
  CASE a.k = "fin"  -> [a EXCEPT !.s = -a.s]
    [] a.k = "inf"  -> NegInf
    [] a.k = "ninf" -> Infinity
    [] a.k = "sqrt" -> Sym
    [] OTHER        -> a

\* sign of n1/d1 - n2/d2 for finite a, b
CmpFin(a, b) ==
  LET x == BMul(a.n, b.d)
      y == BMul(b.n, a.d)
  IN  IF a.s # b.s THEN (IF a.s < b.s THEN -1 ELSE 1)
      ELSE IF a.s = 0 THEN 0
      ELSE a.s * BCmp(x, y)

\* a < b  (false whenever an operand is NaN)
Lt(a, b) ==
  CASE a.k = "nan" \/ b.k = "nan"   -> FALSE
    [] a.k = "fin" /\ b.k = "fin"   -> CmpFin(a, b) < 0
    [] a.k = "ninf"                 -> b.k # "ninf"
    [] b.k = "inf"                  -> a.k # "inf"
    [] a.k = "sqrt" /\ b.k = "fin"  ->
         b.s > 0 /\ BCmp(BMul(BMul(a.n, b.d), b.d), BMul(BMul(b.n, b.n), a.d)) < 0
    [] a.k = "fin" /\ b.k = "sqrt"  ->
         a.s <= 0 \/ BCmp(BMul(BMul(a.n, a.n), b.d), BMul(BMul(b.n, a.d), a.d)) < 0
    [] a.k = "sqrt" /\ b.k = "sqrt" -> BCmp(BMul(a.n, b.d), BMul(b.n, a.d)) < 0
    [] OTHER                        -> FALSE

Gt(a, b) == Lt(b, a)

\* a === b on numbers
Eq(a, b) ==
  CASE a.k = "nan" \/ b.k = "nan"   -> FALSE
    [] a.k = "fin" /\ b.k = "fin"   -> CmpFin(a, b) = 0
    [] OTHER                        -> a = b

Le(a, b) == Lt(a, b) \/ Eq(a, b)
Ge(a, b) == Le(b, a)

\* sa * x / d + sb * y / d for signs sa, sb and naturals x, y, d
AddFin(sa, sb, x, y, d) ==
  IF sa = sb THEN Fin(sa, BAdd(x, y), d)
  ELSE IF BCmp(x, y) = 0 THEN Fin(0, <<>>, <<1>>)
  ELSE IF BCmp(x, y) > 0 THEN Fin(sa, BSub(x, y), d)
  ELSE Fin(sb, BSub(y, x), d)

Add(a, b) ==
  CASE a.k = "nan" \/ b.k = "nan"   -> NaN
    [] a.k = "fin" /\ b.k = "fin"   ->
         IF a.s = 0 THEN b
         ELSE IF b.s = 0 THEN a
         ELSE AddFin(a.s, b.s, BMul(a.n, b.d), BMul(b.n, a.d), BMul(a.d, b.d))
    [] IsInf(a) /\ IsInf(b)         -> IF a.k = b.k THEN a ELSE NaN
    [] IsInf(a)                     -> a
    [] IsInf(b)                     -> b
    [] OTHER                        -> Sym

Sub(a, b) == Add(a, Neg(b))

Mul(a, b) ==
  CASE a.k = "nan" \/ b.k = "nan"   -> NaN
    [] a.k = "fin" /\ b.k = "fin"   ->
         Fin(a.s * b.s, BMul(a.n, b.n), BMul(a.d, b.d))
    [] IsInf(a) /\ b.k \in {"fin", "inf", "ninf"} ->
         IF b.s = 0 THEN NaN ELSE InfOf(a.s * b.s)
    [] IsInf(b) /\ a.k = "fin"      ->
         IF a.s = 0 THEN NaN ELSE InfOf(a.s * b.s)
    [] OTHER                        -> Sym

Div(a, b) ==
  CASE a.k = "nan" \/ b.k = "nan"   -> NaN
    [] a.k = "fin" /\ b.k = "fin"   ->
         IF b.s = 0
         THEN (IF a.s = 0 THEN NaN ELSE InfOf(a.s))
         ELSE Fin(a.s * b.s, BMul(a.n, b.d), BMul(a.d, b.n))
    [] IsInf(a) /\ IsInf(b)         -> NaN
    [] IsInf(a) /\ b.k = "fin"      -> InfOf(IF b.s < 0 THEN -a.s ELSE a.s)
    [] a.k = "fin" /\ IsInf(b)      -> Zero
    [] OTHER                        -> Sym

\* Math.min, Math.max
MathMin(a, b) ==
  IF a.k = "nan" \/ b.k = "nan" THEN NaN ELSE IF Lt(b, a) THEN b ELSE a

MathMax(a, b) ==
  IF a.k = "nan" \/ b.k = "nan" THEN NaN ELSE IF Lt(a, b) THEN b ELSE a

\* Math.abs
MathAbs(a) == IF a.k \in {"fin", "inf", "ninf"} /\ a.s < 0 THEN Neg(a) ELSE a

\* q, or q + 1 when y is not q * d, for q = floor(y / d)
BCeilFrom(y, d, q) == IF BCmp(BMul(q, d), y) = 0 THEN q ELSE BAdd(q, <<1>>)

\* ceiling(y / d) for d > 0
BCeilDiv(y, d) == BCeilFrom(y, d, BDiv(y, d))

\* Math.round: the integer nearest to a, halves rounded up:
\* floor((2n + d) / 2d) for a = n / d, and for a = -n / d the number 0 when
\* 2n <= d and -ceiling((2n - d) / 2d) otherwise
MathRound(a) ==
  IF a.k # "fin" THEN a
  ELSE IF a.s >= 0
       THEN Fin(1, BDiv(BAdd(BMulLimb(a.n, 2), a.d), BMulLimb(a.d, 2)), <<1>>)
  ELSE IF BCmp(a.d, BMulLimb(a.n, 2)) >= 0 THEN Fin(0, <<>>, <<1>>)
  ELSE Fin(-1, BCeilDiv(BSub(BMulLimb(a.n, 2), a.d), BMulLimb(a.d, 2)), <<1>>)

\* Math.sqrt
MathSqrt(a) ==
  CASE a.k = "fin" /\ a.s = 0 -> Zero
    [] a.k = "fin" /\ a.s > 0 -> [a EXCEPT !.k = "sqrt"]
    [] a.k = "fin" /\ a.s < 0 -> NaN
    [] a.k = "inf"            -> Infinity
    [] a.k = "ninf"           -> NaN
    [] a.k = "nan"            -> NaN
    [] OTHER                  -> Sym

\* Math.pow(x, y), computed where the result is rational
MathPow(x, y) ==
  CASE y.k = "fin" /\ y.s = 0                -> Num(1)
    [] x.k = "nan" \/ y.k = "nan"            -> NaN
    [] IsInf(y) /\ x.k = "fin"               ->
         IF Eq(MathAbs(x), Num(1)) THEN NaN
         ELSE IF Gt(MathAbs(x), Num(1)) = (y.k = "inf") THEN Infinity ELSE Zero
    [] IsInf(y) /\ IsInf(x)                  -> IF y.k = "inf" THEN Infinity ELSE Zero
    [] y.k = "fin" /\ Eq(y, Num(1))          -> x
    [] y.k = "fin" /\ Eq(y, Num(2))          -> Mul(x, x)
    [] x.k = "fin" /\ x.s = 0 /\ y.k = "fin" -> IF y.s > 0 THEN Zero ELSE Infinity
    [] x.k = "fin" /\ Eq(x, Num(1))          -> Num(1)
    [] x.k = "fin" /\ x.s < 0 /\ y.k = "fin" /\ y.s > 0 /\ Lt(y, Num(1)) -> NaN
    [] x.k = "inf" /\ y.k = "fin"            -> IF y.s > 0 THEN Infinity ELSE Zero
    [] OTHER                                 -> Sym

\* truthiness of a number: neither 0 nor NaN (nor undefined)
Truthy(a) == ~(a.k \in {"nan", "undef"} \/ (a.k = "fin" /\ a.s = 0))

\* a ?? b and a || b
CoalesceFalsy(a, b) == IF Truthy(a) THEN a ELSE b
Coalesce(a, b) == IF a.k = "undef" THEN b ELSE a
OrElse(a, b)   == IF Truthy(a) THEN a ELSE b

\* obj[key] for an object whose property names are integers
KeyOf(key) ==
  IF key.k = "fin" /\ key.s >= 0 /\ key.d = <<1>> /\ Len(key.n) <= 1
  THEN (IF key.n = <<>> THEN 0 ELSE key.n[1])
  ELSE -1

Get(obj, key) == IF KeyOf(key) \in DOMAIN obj THEN obj[KeyOf(key)] ELSE Undefined

VARIABLES
  portfolioCalc,   \* the calculator state object
  simCalls,        \* arguments of the simulatePortfolio calls of the last calculatePortfolio
  events,          \* number of input events handled
  args,            \* arguments of the function call under study
  ret              \* its return value, NotReturned before the call

vars == <<portfolioCalc, simCalls, events, args, ret>>

\* ------------------------------------------------------------------------
\* Portfolio calculator state
\* ------------------------------------------------------------------------
FirstYear == 2014
LastYear  == 2024

stocksTenths  == <<137, 14, 120, 218, -44, 315, 184, 287, -181, 263, 250>>
bondsTenths   == <<60, 5, 26, 35, 0, 87, 75, -15, -130, 55, 12>>
bitcoinUnits  == <<-58, 35, 125, 1318, -73, 95, 301, 60, -65, 155, 120>>

historicalReturns ==
  [stocks  |-> [y \in FirstYear..LastYear |-> Dec(stocksTenths[y - FirstYear + 1], 1)],
   bonds   |-> [y \in FirstYear..LastYear |-> Dec(bondsTenths[y - FirstYear + 1], 1)],
   bitcoin |-> [y \in FirstYear..LastYear |-> Num(bitcoinUnits[y - FirstYear + 1])]]

portfolioCalcInit ==
  [portfolioSize     |-> Num(1000000),
   stockAllocation   |-> Num(60),
   bondAllocation    |-> Num(40),
   btcAllocation     |-> Num(0),
   timeHorizon       |-> Num(10),
   startYear         |-> Num(2014),
   minPortfolioSize  |-> Num(10000),
   maxPortfolioSize  |-> Num(1000000000),
   minAllocation     |-> Num(0),
   maxAllocation     |-> Num(100),
   historicalReturns |-> historicalReturns]

NotReturned == [returned |-> FALSE]

\* ------------------------------------------------------------------------
\* simulatePortfolio and calculateStdDev
\* ------------------------------------------------------------------------
RECURSIVE SumSeq(_)
SumSeq(arr) == IF arr = <<>> THEN Zero ELSE Add(SumSeq(SubSeq(arr, 1, Len(arr) - 1)), arr[Len(arr)])

squaredDiffsOf(arr, mean) ==
  [i \in 1..Len(arr) |-> MathPow(Sub(arr[i], mean), Num(2))]

calculateStdDev(arr) ==
  IF Len(arr) = 0 THEN Zero
  ELSE MathSqrt(Div(SumSeq(squaredDiffsOf(arr, Div(SumSeq(arr), Num(Len(arr))))),
                    Num(Len(arr))))

\* the return of one asset for a year, the 2024 entry when the year is absent
yearReturn(table, year) == Coalesce(Get(table, year), Get(table, Num(2024)))

\* the weighted return of the portfolio for a year
portfolioReturnOf(stockPct, bondPct, btcPct, year) ==
  Add(Add(Mul(Div(stockPct, Num(100)),
              yearReturn(portfolioCalc.historicalReturns.stocks, year)),
          Mul(Div(bondPct, Num(100)),
              yearReturn(portfolioCalc.historicalReturns.bonds, year))),
      Mul(Div(btcPct, Num(100)),
          yearReturn(portfolioCalc.historicalReturns.bitcoin, year)))

\* value * (portfolioReturn / 100), without the 1 +
nextValueNoBase(value, portfolioReturn) ==
  Mul(value, Div(portfolioReturn, Num(100)))

nextValue(value, portfolioReturn) ==
  Mul(value, Add(Num(1), Div(portfolioReturn, Num(100))))

nextPeak(value, peak) == IF Gt(value, peak) THEN value ELSE peak

\* the decline measured against value instead of peak
drawdownOfValue(peak, value) == Mul(Div(Sub(peak, value), value), Num(100))

drawdownOf(peak, value) == Mul(Div(Sub(peak, value), peak), Num(100))

\* the loop state after one iteration; st holds value, peak and results
recordYear(st, year, portfolioReturn, value, peak, drawdown) ==
  [value   |-> value,
   peak    |-> peak,
   results |-> [st.results EXCEPT
                  !.returns = Append(@, portfolioReturn),
                  !.years = Append(@, year),
                  !.values = Append(@, value),
                  !.maxDrawdown = IF Gt(drawdown, @) THEN drawdown ELSE @]]

stepPeak(st, year, portfolioReturn, value, peak) ==
  recordYear(st, year, portfolioReturn, value, peak, drawdownOf(peak, value))

stepValue(st, year, portfolioReturn, value) ==
  stepPeak(st, year, portfolioReturn, value, nextPeak(value, st.peak))

stepReturn(st, year, portfolioReturn) ==
  stepValue(st, year, portfolioReturn, nextValue(st.value, portfolioReturn))

stepYear(st, stockPct, bondPct, btcPct, year) ==
  stepReturn(st, year, portfolioReturnOf(stockPct, bondPct, btcPct, year))

\* the year is startYear + i + 1
simulateStepNextYear(st, stockPct, bondPct, btcPct, startYear, i) ==
  stepYear(st, stockPct, bondPct, btcPct, Add(startYear, Num(i + 1)))

\* the year is counted from the calculator's startYear, not the argument
simulateStepGlobalYear(st, stockPct, bondPct, btcPct, startYear, i) ==
  stepYear(st, stockPct, bondPct, btcPct, Add(portfolioCalc.startYear, Num(i)))

\* one iteration of the loop
simulateStep(st, stockPct, bondPct, btcPct, startYear, i) ==
  stepYear(st, stockPct, bondPct, btcPct, Add(startYear, Num(i)))

\* the loop with the condition i <= years
RECURSIVE simulateLoopInclusive(_, _, _, _, _, _, _)
simulateLoopInclusive(st, stockPct, bondPct, btcPct, years, startYear, i) ==
  IF Le(Num(i), years)
  THEN simulateLoopInclusive(simulateStep(st, stockPct, bondPct, btcPct, startYear, i),
                             stockPct, bondPct, btcPct, years, startYear, i + 1)
  ELSE st

RECURSIVE simulateLoop(_, _, _, _, _, _, _)
simulateLoop(st, stockPct, bondPct, btcPct, years, startYear, i) ==
  IF Lt(Num(i), years)
  THEN simulateLoop(simulateStep(st, stockPct, bondPct, btcPct, startYear, i),
                    stockPct, bondPct, btcPct, years, startYear, i + 1)
  ELSE st

\* the results object before the loop
initialResults(initialValue) ==
  [years |-> <<>>, values |-> <<>>, returns |-> <<>>,
   finalValue |-> initialValue, totalReturn |-> Zero,
   cagr |-> Zero, volatility |-> Zero, maxDrawdown |-> Zero, sharpe |-> Zero]

totalReturnOf(value, initialValue) ==
  Mul(Div(Sub(value, initialValue), initialValue), Num(100))

cagrOf(value, initialValue, years) ==
  IF Gt(years, Zero) /\ Gt(initialValue, Zero)
  THEN Mul(Sub(MathPow(Div(value, initialValue), Div(Num(1), years)), Num(1)),
           Num(100))
  ELSE Zero

sharpeOf(cagr, volatility) ==
  IF Gt(volatility, Zero) THEN Div(Sub(cagr, Num(2)), volatility) ELSE Zero

\* the results object returned, from the results of the loop
finalResults(results, value, totalReturn, cagr, volatility) ==
  [results EXCEPT !.finalValue = value,
                  !.totalReturn = totalReturn,
                  !.cagr = cagr,
                  !.volatility = volatility,
                  !.sharpe = sharpeOf(cagr, volatility)]

\* the statements after the loop; st is the loop's final state
afterLoop(st, initialValue, years) ==
  finalResults(st.results, st.value, totalReturnOf(st.value, initialValue),
               cagrOf(st.value, initialValue, years),
               calculateStdDev(st.results.returns))

simulatePortfolio(initialValue, stockPct, bondPct, btcPct, years, startYear) ==
  afterLoop(simulateLoop([value |-> initialValue, peak |-> initialValue,
                          results |-> initialResults(initialValue)],
                         stockPct, bondPct, btcPct, years, startYear, 0),
            initialValue, years)

\* ------------------------------------------------------------------------
\* Calls of simulatePortfolio with arguments drawn from bounded sets
\* ------------------------------------------------------------------------
MaxYears == 3

InitialValues == {Num(0), Num(1000000), Num(10000), Num(-5000)}
Mixes == {<<Num(100), Num(0), Num(0)>>, <<Num(0), Num(100), Num(0)>>,
          <<Num(0), Num(0), Num(100)>>, <<Num(0), Num(0), Num(0)>>,
          <<Num(60), Num(40), Num(0)>>, <<Num(30), Num(20), Num(50)>>,
          <<Dec(125, 1), Dec(375, 1), Num(50)>>, <<Num(100), Num(-50), Num(50)>>,
          <<Infinity, NegInf, Num(50)>>}
StartYears == {Num(2012), Num(2014), Num(2016), Num(2017), Num(2020), Num(2023),
               Num(2030)}
Horizons == {Num(y) : y \in 0..MaxYears} \cup {Num(-1), Dec(15, 1)}

SimArgs ==
  {[initialValue |-> v, stockPct |-> m[1], bondPct |-> m[2], btcPct |-> m[3],
    years |-> y, startYear |-> sy] :
     v \in InitialValues, m \in Mixes, y \in Horizons, sy \in StartYears}

SimInit ==
  /\ portfolioCalc = portfolioCalcInit
  /\ simCalls = <<>>
  /\ events = 0
  /\ args \in SimArgs
  /\ ret = NotReturned

SimulatePortfolio ==
  /\ ret = NotReturned
  /\ ret' = [returned |-> TRUE,
             results |-> simulatePortfolio(args.initialValue, args.stockPct,
                           args.bondPct, args.btcPct, args.years, args.startYear)]
  /\ UNCHANGED <<portfolioCalc, simCalls, events, args>>

SimNext == SimulatePortfolio

SimSpec == SimInit /\ [][SimNext]_vars

\* ------------------------------------------------------------------------
\* calculateMaxDrawdown
\* ------------------------------------------------------------------------
\* the loop with a peak that stays values[0]
RECURSIVE maxDrawdownLoopFixedPeak(_, _, _, _)
maxDrawdownLoopFixedPeak(values, i, peak, maxDrawdown) ==
  IF i > Len(values) THEN maxDrawdown
  ELSE LET value    == values[i]
           drawdown == Mul(Div(Sub(peak, value), peak), Num(100))
       IN  maxDrawdownLoopFixedPeak(values, i + 1, peak,
             IF Gt(drawdown, maxDrawdown) THEN drawdown ELSE maxDrawdown)

RECURSIVE maxDrawdownLoop(_, _, _, _)
maxDrawdownLoop(values, i, peak0, maxDrawdown) ==
  IF i > Len(values) THEN maxDrawdown
  ELSE LET value    == values[i]
           peak     == IF Gt(value, peak0) THEN value ELSE peak0
           drawdown == Mul(Div(Sub(peak, value), peak), Num(100))
       IN  maxDrawdownLoop(values, i + 1, peak,
             IF Gt(drawdown, maxDrawdown) THEN drawdown ELSE maxDrawdown)

calculateMaxDrawdown(values) ==
  maxDrawdownLoop(values, 1, IF values = <<>> THEN Undefined ELSE values[1], Zero)

MaxLen == 3

DrawdownValues == {Num(50), Num(100), Num(150), Dec(125, 1)}

DrawdownArgs ==
  {[values |-> v] : v \in UNION {[1..n -> DrawdownValues] : n \in 0..MaxLen}}

DrawdownInit ==
  /\ portfolioCalc = portfolioCalcInit
  /\ simCalls = <<>>
  /\ events = 0
  /\ args \in DrawdownArgs
  /\ ret = NotReturned

CalculateMaxDrawdown ==
  /\ ret = NotReturned
  /\ ret' = [returned |-> TRUE, results |-> calculateMaxDrawdown(args.values)]
  /\ UNCHANGED <<portfolioCalc, simCalls, events, args>>

DrawdownNext == CalculateMaxDrawdown

DrawdownSpec == DrawdownInit /\ [][DrawdownNext]_vars

\* ------------------------------------------------------------------------
\* calculateVolatility and the standard deviation calls
\* ------------------------------------------------------------------------
\* the reduce of the squared differences over returns.length
varianceOf(returns, mean) ==
  Div(SumSeq(squaredDiffsOf(returns, mean)), Num(Len(returns)))

\* no test of returns.length comes before the divisions
calculateVolatility(returns) ==
  MathSqrt(varianceOf(returns, Div(SumSeq(returns), Num(Len(returns)))))

StdDevValues == {Num(0), Num(10), Dec(137, 1), Num(-73)}

StdDevArgs ==
  {[returns |-> v] : v \in UNION {[1..n -> StdDevValues] : n \in 0..MaxLen}}

StdDevInit ==
  /\ portfolioCalc = portfolioCalcInit
  /\ simCalls = <<>>
  /\ events = 0
  /\ args \in StdDevArgs
  /\ ret = NotReturned

CalculateStdDev ==
  /\ ret = NotReturned
  /\ ret' = [returned |-> TRUE, callee |-> "calculateStdDev",
             results |-> calculateStdDev(args.returns)]
  /\ UNCHANGED <<portfolioCalc, simCalls, events, args>>

CalculateVolatility ==
  /\ ret = NotReturned
  /\ ret' = [returned |-> TRUE, callee |-> "calculateVolatility",
             results |-> calculateVolatility(args.returns)]
  /\ UNCHANGED <<portfolioCalc, simCalls, events, args>>

StdDevNext == CalculateStdDev \/ CalculateVolatility

StdDevSpec == StdDevInit /\ [][StdDevNext]_vars

\* ------------------------------------------------------------------------
\* Input handling
\* ------------------------------------------------------------------------
clamp(value, min, max) == MathMin(MathMax(value, min), max)

\* value is the result of parseFloat on the input text, NaN for text that
\* is not a number
validatePortfolioSize(pc, value) ==
  IF IsNaN(value) THEN FALSE
  ELSE Ge(value, pc.minPortfolioSize) /\ Le(value, pc.maxPortfolioSize)

validateAllocation(pc, stock, bond, btc) ==
  LET total     == Add(Add(stock, bond), btc)
      tolerance == Dec(1, 1)
  IN  /\ Le(MathAbs(Sub(total, Num(100))), tolerance)
      /\ Ge(stock, pc.minAllocation) /\ Le(stock, pc.maxAllocation)
      /\ Ge(bond, pc.minAllocation) /\ Le(bond, pc.maxAllocation)
      /\ Ge(btc, pc.minAllocation) /\ Le(btc, pc.maxAllocation)

sanitizeInput(value, min, max) ==
  IF IsNaN(value) THEN Zero ELSE MathMax(min, MathMin(max, value))

\* the arguments of the two simulatePortfolio calls of calculatePortfolio
calculatePortfolio(pc) ==
  <<[initialValue |-> pc.portfolioSize, stockPct |-> Num(60), bondPct |-> Num(40),
     btcPct |-> Num(0), years |-> pc.timeHorizon, startYear |-> pc.startYear],
    [initialValue |-> pc.portfolioSize, stockPct |-> pc.stockAllocation,
     bondPct |-> pc.bondAllocation, btcPct |-> pc.btcAllocation,
     years |-> pc.timeHorizon, startYear |-> pc.startYear]>>

\* the sanitized value stored as it is
handlePortfolioSizeUnclamped(pc, id, value) == [pc EXCEPT ![id] = value]

handlePortfolioSize(pc, id, value) ==
  [pc EXCEPT ![id] =
     IF ~validatePortfolioSize(pc, value)
     THEN MathMax(pc.minPortfolioSize, MathMin(pc.maxPortfolioSize, value))
     ELSE value]

\* the allocations written by the btcAllocation branch
splitRemaining(pc, value, remaining, stock) ==
  [pc EXCEPT !.btcAllocation = value,
             !.stockAllocation = stock,
             !.bondAllocation = Sub(remaining, stock)]

stockBondRatio(pc) ==
  OrElse(Div(pc.stockAllocation, Add(pc.stockAllocation, pc.bondAllocation)),
         Dec(6, 1))

btcClamped(pc, value, remaining) ==
  splitRemaining(pc, value, remaining, MathRound(Mul(remaining, stockBondRatio(pc))))

handleBtcAllocation(pc, v) ==
  btcClamped(pc, clamp(v, Num(0), Num(50)), Sub(Num(100), clamp(v, Num(0), Num(50))))

\* btcAllocation set to the rest of 100, clamped to 0..100
adjustBtc(pc) ==
  [pc EXCEPT !.btcAllocation =
     clamp(Sub(Sub(Num(100), pc.stockAllocation), pc.bondAllocation),
           Num(0), Num(100))]

\* pc already holds value in field id
reduceOther(pc, id, value) ==
  IF Gt(Add(pc.stockAllocation, pc.bondAllocation), Num(100))
  THEN (IF id = "stockAllocation"
        THEN [pc EXCEPT !.bondAllocation = Sub(Sub(Num(100), value), pc.btcAllocation)]
        ELSE [pc EXCEPT !.stockAllocation = Sub(Sub(Num(100), value), pc.btcAllocation)])
  ELSE pc

stockBondClamped(pc, id, value) ==
  adjustBtc(reduceOther([pc EXCEPT ![id] = value], id, value))

handleStockBond(pc, id, v) == stockBondClamped(pc, id, clamp(v, Num(0), Num(100)))

handleSanitized(pc, id, value) ==
  IF id = "portfolioSize" THEN handlePortfolioSize(pc, id, value)
  ELSE IF id = "btcAllocation" THEN handleBtcAllocation(pc, value)
  ELSE IF id = "stockAllocation" \/ id = "bondAllocation"
       THEN handleStockBond(pc, id, value)
  ELSE [pc EXCEPT ![id] = value]

\* the calculator state after handleInputChange for an event on input id
\* whose text parses to the number parsed
handleInputChange(pc, id, parsed) ==
  handleSanitized(pc, id, sanitizeInput(parsed, NegInf, Infinity))

MaxEvents == 3

inputs == {"portfolioSize", "stockAllocation", "bondAllocation",
           "btcAllocation", "timeHorizon", "startYear"}

\* parseFloat results the events carry, per input
InputValues(id) ==
  CASE id = "portfolioSize" -> {NaN, Num(500), Num(50000), Num(2000000000)}
    [] id = "timeHorizon"   -> {NaN, Num(2)}
    [] id = "startYear"     -> {NaN, Num(2030)}
    [] OTHER                -> {NaN, Num(-5), Num(10), Dec(125, 1), Num(50), Num(150)}

ProbeArgs ==
  {[initialValue |-> Num(1000000), stockPct |-> Num(60), bondPct |-> Num(40),
    btcPct |-> Num(0), years |-> Num(2), startYear |-> Num(2014)],
   [initialValue |-> Num(10000), stockPct |-> Num(0), bondPct |-> Num(50),
    btcPct |-> Num(50), years |-> Num(1), startYear |-> Num(2030)]}

Init ==
  /\ portfolioCalc = portfolioCalcInit
  /\ simCalls = calculatePortfolio(portfolioCalcInit)
  /\ events = 0
  /\ args \in ProbeArgs
  /\ ret = NotReturned

HandleInputChange ==
  \E id \in inputs : \E parsed \in InputValues(id) :
    /\ events < MaxEvents
    /\ portfolioCalc' = handleInputChange(portfolioCalc, id, parsed)
    /\ simCalls' = calculatePortfolio(portfolioCalc')
    /\ events' = events + 1
    /\ UNCHANGED <<args, ret>>

Next == HandleInputChange \/ SimulatePortfolio

Spec == Init /\ [][Next]_vars

\* ------------------------------------------------------------------------
\* Properties of simulatePortfolio
\* ------------------------------------------------------------------------
Near(a, b, tol) == Le(MathAbs(Sub(a, b)), tol)
SameNum(a, b) == Eq(a, b) \/ (a.k = "nan" /\ b.k = "nan")

\* C1: with years = 0 the result has empty years, values and returns
\* sequences, finalValue equal to initialValue, and cagr, volatility,
\* maxDrawdown and sharpe all 0.
C1_ZeroYears ==
  (ret.returned /\ Eq(args.years, Zero)) =>
     /\ ret.results.years = <<>>
     /\ ret.results.values = <<>>
     /\ ret.results.returns = <<>>
     /\ Eq(ret.results.finalValue, args.initialValue)
     /\ Eq(ret.results.cagr, Zero)
     /\ Eq(ret.results.volatility, Zero)
     /\ Eq(ret.results.maxDrawdown, Zero)
     /\ Eq(ret.results.sharpe, Zero)

C1_Witness ==
  /\ ret.returned
  /\ Eq(args.years, Zero)
  /\ Eq(args.initialValue, Num(1000000))
  /\ Eq(args.btcPct, Num(100))
  /\ Eq(ret.results.finalValue, Num(1000000))

\* C2: with initialValue = 0 the result's totalReturn is the number 0.
C2_TotalReturnZero ==
  (ret.returned /\ Eq(args.initialValue, Zero)) =>
     Eq(ret.results.totalReturn, Zero)

\* the return simulatePortfolio is to use for asset a in the integer year y
ExpectedReturn(a, y) ==
  IF y \in FirstYear..LastYear THEN historicalReturns[a][y]
  ELSE historicalReturns[a][LastYear]

ExpectedPortfolioReturn(y) ==
  Add(Add(Mul(Div(args.stockPct, Num(100)), ExpectedReturn("stocks", y)),
          Mul(Div(args.bondPct, Num(100)), ExpectedReturn("bonds", y))),
      Mul(Div(args.btcPct, Num(100)), ExpectedReturn("bitcoin", y)))

\* C3: every simulated year uses each asset's own table entry when the year
\* is in 2014..2024 (also when the entry is 0, as bonds 2018) and the 2024
\* entry otherwise, before 2014 as well as after 2024.
C3_TableLookup ==
  ret.returned =>
     \A i \in 1..Len(ret.results.returns) :
        SameNum(ret.results.returns[i],
                ExpectedPortfolioReturn(KeyOf(args.startYear) + i - 1))

C3_Witness ==
  /\ ret.returned
  /\ Eq(args.startYear, Num(2012))
  /\ Eq(args.bondPct, Num(100)) /\ Eq(args.stockPct, Zero) /\ Eq(args.btcPct, Zero)
  /\ Len(ret.results.returns) = 3
  /\ Eq(ret.results.returns[1], Dec(12, 1))
  /\ Eq(ret.results.returns[2], Dec(12, 1))
  /\ Eq(ret.results.returns[3], Num(6))

C4Args ==
  [initialValue |-> Num(1000000), stockPct |-> Num(100), bondPct |-> Num(0),
   btcPct |-> Num(0), years |-> Num(3), startYear |-> Num(2014)]

C4Holds(v2, v3, total) ==
  (ret.returned /\ args = C4Args) =>
     /\ Len(ret.results.returns) = 3
     /\ Eq(ret.results.returns[1], Dec(137, 1))
     /\ Eq(ret.results.returns[2], Dec(14, 1))
     /\ Eq(ret.results.returns[3], Num(12))
     /\ Len(ret.results.values) = 3
     /\ Near(ret.results.values[1], Num(1137000), Dec(1, 2))
     /\ Near(ret.results.values[2], v2, Dec(1, 2))
     /\ Near(ret.results.values[3], v3, Dec(1, 2))
     /\ Near(ret.results.totalReturn, total, Dec(5, 3))

\* C4 as stated: simulatePortfolio(1000000, 100, 0, 0, 3, 2014) returns the
\* returns [13.7, 1.4, 12.0], the values [1137000, 1153018, 1291380.16] and
\* a totalReturn of about 29.14.
C4_Original == C4Holds(Num(1153018), Dec(129138016, 2), Dec(2914, 2))

\* C4 amended: simulatePortfolio(1000000, 100, 0, 0, 3, 2014) returns the
\* returns [13.7, 1.4, 12.0], the values [1137000, 1152918, 1291268.16] and
\* a totalReturn of about 29.13.
C4_Scenario == C4Holds(Num(1152918), Dec(129126816, 2), Dec(2913, 2))

C4_Witness ==
  /\ ret.returned
  /\ args = C4Args
  /\ Eq(ret.results.finalValue, Dec(129126816, 2))

\* C6: with all three weights 0 every entry of returns is 0, every entry of
\* values equals initialValue and finalValue equals initialValue.
C6_ZeroWeights ==
  (/\ ret.returned
   /\ Eq(args.stockPct, Zero) /\ Eq(args.bondPct, Zero) /\ Eq(args.btcPct, Zero)) =>
     /\ \A i \in 1..Len(ret.results.returns) : Eq(ret.results.returns[i], Zero)
     /\ \A i \in 1..Len(ret.results.values) :
           Eq(ret.results.values[i], args.initialValue)
     /\ Eq(ret.results.finalValue, args.initialValue)

C6_Witness ==
  /\ ret.returned
  /\ Eq(args.stockPct, Zero) /\ Eq(args.bondPct, Zero) /\ Eq(args.btcPct, Zero)
  /\ Eq(args.initialValue, Num(10000))
  /\ Eq(args.startYear, Num(2017))
  /\ Len(ret.results.values) = MaxYears
  /\ Eq(ret.results.values[MaxYears], Num(10000))

\* a mix of non-negative weights that sum to 100
ValidMix(a) ==
  /\ Ge(a.stockPct, Zero) /\ Ge(a.bondPct, Zero) /\ Ge(a.btcPct, Zero)
  /\ Eq(Add(Add(a.stockPct, a.bondPct), a.btcPct), Num(100))

\* C13: for initialValue > 0 and a mix of non-negative weights summing to
\* 100, every entry of the values sequence is strictly positive and
\* maxDrawdown is at least 0 and below 100, for any startYear and years.
C13_PositiveValues ==
  (ret.returned /\ Gt(args.initialValue, Zero) /\ ValidMix(args)) =>
     /\ \A i \in 1..Len(ret.results.values) : Gt(ret.results.values[i], Zero)
     /\ Ge(ret.results.maxDrawdown, Zero)
     /\ Lt(ret.results.maxDrawdown, Num(100))

C13_Witness ==
  /\ ret.returned
  /\ Eq(args.initialValue, Num(1000000))
  /\ Eq(args.btcPct, Num(100)) /\ ValidMix(args)
  /\ Eq(args.startYear, Num(2017))
  /\ Len(ret.results.values) = MaxYears
  /\ Eq(ret.results.maxDrawdown, Num(73))

\* C5: a call of simulatePortfolio made now with the arguments of an earlier
\* call returns the result the earlier call returned, whatever input events
\* were handled before or after that call; the historical return table is
\* never modified.
C5_SameResult ==
  /\ portfolioCalc.historicalReturns = historicalReturns
  /\ ret.returned =>
       ret.results = simulatePortfolio(args.initialValue, args.stockPct,
                       args.bondPct, args.btcPct, args.years, args.startYear)

C5_Witness ==
  /\ ret.returned
  /\ events = MaxEvents
  /\ ~Eq(portfolioCalc.startYear, Num(2014))
  /\ ~Eq(portfolioCalc.stockAllocation, Num(60))
  /\ Len(ret.results.values) > 0

\* ------------------------------------------------------------------------
\* Properties of the allocations held in portfolioCalc
\* ------------------------------------------------------------------------
\* C7: stockAllocation + bondAllocation + btcAllocation is within 0.1 of
\* 100, in portfolioCalc and in the mix passed to simulatePortfolio.
C7_SumIs100 ==
  /\ Near(Add(Add(portfolioCalc.stockAllocation, portfolioCalc.bondAllocation),
              portfolioCalc.btcAllocation), Num(100), Dec(1, 1))
  /\ Near(Add(Add(simCalls[2].stockPct, simCalls[2].bondPct), simCalls[2].btcPct),
          Num(100), Dec(1, 1))

\* C8: btcAllocation never exceeds 50.
C8_BtcAtMost50 == Le(portfolioCalc.btcAllocation, Num(50))

\* C9: each allocation is at least 0 and at most 100, and no weight passed
\* to simulatePortfolio is negative.
C9_AllocationsInRange ==
  /\ \A f \in {"stockAllocation", "bondAllocation", "btcAllocation"} :
        Ge(portfolioCalc[f], Num(0)) /\ Le(portfolioCalc[f], Num(100))
  /\ \A f \in {"stockPct", "bondPct", "btcPct"} : Ge(simCalls[2][f], Num(0))

\* ------------------------------------------------------------------------
\* Properties of calculateMaxDrawdown
\* ------------------------------------------------------------------------
LargestDecline(values) ==
  LET D == {Mul(Div(Sub(values[i], values[j]), values[i]), Num(100)) :
              <<i, j>> \in {p \in (1..Len(values)) \X (1..Len(values)) : p[1] <= p[2]}}
  IN  IF D = {} THEN Zero ELSE CHOOSE x \in D : \A y \in D : Le(y, x)

Increasing(values) ==
  \A i \in 1..Len(values) - 1 : Lt(values[i], values[i + 1])

\* C10: calculateMaxDrawdown returns the largest decline
\* (v_i - v_j) / v_i * 100 over positions i <= j of a sequence of positive
\* values: 0 for an empty, a one-element and an increasing sequence, and 50
\* for [100, 50, 100].
C10_LargestDecline ==
  ret.returned =>
     /\ Eq(ret.results, LargestDecline(args.values))
     /\ Len(args.values) <= 1 => Eq(ret.results, Zero)
     /\ Increasing(args.values) => Eq(ret.results, Zero)
     /\ args.values = <<Num(100), Num(50), Num(100)>> => Eq(ret.results, Num(50))

C10_Witness ==
  /\ ret.returned
  /\ args.values = <<Num(100), Num(150), Num(50)>>
  /\ Eq(Mul(ret.results, Num(3)), Num(200))

\* ------------------------------------------------------------------------
\* Properties of calculateStdDev and calculateVolatility
\* ------------------------------------------------------------------------
\* C11: calculateStdDev and calculateVolatility both return 0 for an empty
\* sequence, never NaN or undefined.
C11_EmptyIsZero ==
  (ret.returned /\ args.returns = <<>>) => Eq(ret.results, Zero)

\* ------------------------------------------------------------------------
\* Properties of the btcAllocation events
\* ------------------------------------------------------------------------
\* the split the proportional rule gives for previous stock s and bond b
C12Split(s, b, btc, remaining, after) ==
  /\ Eq(after.btcAllocation, btc)
  /\ ~Eq(Add(s, b), Zero) =>
        SameNum(after.stockAllocation, MathRound(Mul(remaining, Div(s, Add(s, b)))))
  /\ (Eq(s, Zero) /\ ~Eq(Add(s, b), Zero)) => Eq(after.stockAllocation, Zero)
  /\ SameNum(after.bondAllocation, Sub(remaining, after.stockAllocation))

C12Clamped(before, btc, after) ==
  C12Split(before.stockAllocation, before.bondAllocation, btc,
           Sub(Num(100), btc), after)

C12BtcEvent(v) ==
  /\ events' = events + 1
  /\ portfolioCalc' = handleInputChange(portfolioCalc, "btcAllocation", v)

\* C12: a btcAllocation event with value v sets btcAllocation to v clamped
\* to 0..50, stockAllocation to round(remaining * s / (s + b)) for the
\* previous stock s and bond b with s + b non-zero (0 when s is 0), and
\* bondAllocation to the rest of remaining = 100 - btcAllocation.
C12_ProportionalSplit ==
  [][\A v \in InputValues("btcAllocation") :
        C12BtcEvent(v) =>
          C12Clamped(portfolioCalc,
                     MathMin(MathMax(IF IsNaN(v) THEN Zero ELSE v, Num(0)), Num(50)),
                     portfolioCalc')]_vars


\* ------------------------------------------------------------------------
\* Properties of portfolioSize
\* ------------------------------------------------------------------------
SizeInRange(x) == Ge(x, Num(10000)) /\ Le(x, Num(1000000000))

\* the size a portfolioSize event with parsed value v is expected to store
C14Expected(v) ==
  IF IsNaN(v) \/ Lt(v, Num(10000)) THEN Num(10000)
  ELSE IF Gt(v, Num(1000000000)) THEN Num(1000000000)
  ELSE v

C14Event(id, v) ==
  /\ events' = events + 1
  /\ portfolioCalc' = handleInputChange(portfolioCalc, id, v)

\* C14: portfolioSize is within [10000, 1000000000] in every state, in
\* portfolioCalc and in the initialValue passed to simulatePortfolio; a
\* portfolioSize event stores its value clamped into that range (10000 for
\* a value that is not a number), and an event on another input leaves
\* portfolioSize unchanged.
C14_SizeInRange ==
  /\ [](/\ SizeInRange(portfolioCalc.portfolioSize)
        /\ \A i \in 1..Len(simCalls) : SizeInRange(simCalls[i].initialValue))
  /\ [][\A id \in inputs : \A v \in InputValues(id) :
          \/ IF id = "portfolioSize"
             THEN Eq(portfolioCalc'.portfolioSize, C14Expected(v))
             ELSE portfolioCalc'.portfolioSize = portfolioCalc.portfolioSize
          \/ ~C14Event(id, v)]_vars

C14_Witness ==
  /\ events = 2
  /\ Eq(portfolioCalc.portfolioSize, Num(1000000000))
  /\ Eq(portfolioCalc.timeHorizon, Num(2))
  /\ Eq(simCalls[2].initialValue, Num(1000000000))

====
